---- MODULE Spec2Model ----
(***************************************************************************)
(* Model of placeholder-generator/server.py: the accessibility placeholder *)
(* generator.  Text is a sequence of one-character strings; offsets are    *)
(* zero-based as in the Python source (the character at offset o of s is   *)
(* s[o+1]).  Regular expressions of the source are modelled by matchers    *)
(* that return the offsets the Python match object would report.           *)
(***************************************************************************)
EXTENDS Integers, Sequences, FiniteSets, TLC

VARIABLES
    code,          \* generate: the request text (truncated once received)
    mode,          \* generate: the request mode, lower-cased
    ml_available,  \* module global: whether the ML imports succeeded
    outcomes,      \* what the captioning collaborator answered during this request
    edits,         \* generate: the edits list
    warnings,      \* generate: the warnings list
    emitted,       \* log: for each edit appended by a rule, the rule and the offsets it computed
    pc,            \* the statement that runs next
    call,          \* a direct call of one utility or guesser: the function and its arguments
    ret            \* the values that call returned so far

vars == <<code, mode, ml_available, outcomes, edits, warnings, emitted, pc, call, ret>>

(***************************************************************************)
(* Characters and Python string primitives.                                *)
(***************************************************************************)
Digits == <<"0","1","2","3","4","5","6","7","8","9">>

Range(f) == {f[k] : k \in DOMAIN f}

\* the element of a one-element set; The({e(x) : x \in {v}}) is e with x standing for v
The(S) == CHOOSE r \in S : TRUE

\* the least element of a set of integers, d when it is empty
MinOr(S, d) == IF S = {} THEN d ELSE CHOOSE o \in S : \A q \in S : o <= q

\* the greatest element of a set of integers, d when it is empty
MaxOr(S, d) == IF S = {} THEN d ELSE CHOOSE o \in S : \A q \in S : o >= q

ToLower == [A |-> "a", B |-> "b", C |-> "c", D |-> "d", E |-> "e", F |-> "f", G |-> "g", H |-> "h", I |-> "i", J |-> "j", K |-> "k", L |-> "l", M |-> "m", N |-> "n", O |-> "o", P |-> "p", Q |-> "q", R |-> "r", S |-> "s", T |-> "t", U |-> "u", V |-> "v", W |-> "w", X |-> "x", Y |-> "y", Z |-> "z"]

ToUpper == [a |-> "A", b |-> "B", c |-> "C", d |-> "D", e |-> "E", f |-> "F", g |-> "G", h |-> "H", i |-> "I", j |-> "J", k |-> "K", l |-> "L", m |-> "M", n |-> "N", o |-> "O", p |-> "P", q |-> "Q", r |-> "R", s |-> "S", t |-> "T", u |-> "U", v |-> "V", w |-> "W", x |-> "X", y |-> "Y", z |-> "Z"]

\* c mapped by f where f is defined, c itself elsewhere
Mapped(f, c) == IF c \in DOMAIN f THEN f[c] ELSE c

\* c.lower()
Lower(c) == Mapped(ToLower, c)

\* c.upper()
Upper(c) == Mapped(ToUpper, c)

IsDigit(c) == c \in Range(Digits)

\* int(c) for a digit c
DigitVal(c) == (CHOOSE k \in 1..10 : Digits[k] = c) - 1

\* the regular-expression class \w
IsWord(c) == c \in DOMAIN ToLower \/ c \in DOMAIN ToUpper \/ IsDigit(c) \/ c = "_"

\* the regular-expression class \s, and the characters str.strip() removes
IsSpace(c) == c \in {" ", "\t", "\n", "\r", "\f"}

IsQuote(c) == c \in {"\"", "'"}

Min(a, b) == IF a < b THEN a ELSE b

Max(a, b) == IF a > b THEN a ELSE b

\* s[a:b] for non-negative a, b
Slice(s, a, b) == SubSeq(s, Min(a, Len(s)) + 1, Min(b, Len(s)))

LowerStr(s) == [k \in 1..Len(s) |-> Lower(s[k])]

\* str(n) for n >= 0
RECURSIVE Str(_)
Str(n) == IF n < 10 THEN <<Digits[n + 1]>> ELSE Str(n \div 10) \o <<Digits[(n % 10) + 1]>>

\* int(s) for a non-empty string of digits
RECURSIVE ParseInt(_)
ParseInt(s) == IF Len(s) = 0 THEN 0 ELSE 10 * ParseInt(SubSeq(s, 1, Len(s) - 1)) + DigitVal(s[Len(s)])

\* s.startswith(sub), tested at offset o
StartsAt(sub, s, o) == /\ o + Len(sub) <= Len(s)
                       /\ \A k \in 1..Len(sub) : s[o + k] = sub[k]

\* s.find(sub, from): least offset >= from where sub occurs, else -1
Find(s, sub, from) == MinOr({o \in from..Len(s) : StartsAt(sub, s, o)}, -1)

\* s.rfind(sub)
RFind(s, sub) == MaxOr({o \in 0..Len(s) : StartsAt(sub, s, o)}, -1)

\* sub in s
Contains(s, sub) == \E o \in 0..Len(s) : StartsAt(sub, s, o)

\* s.split(sep) for a one-character separator: the list of pieces
RECURSIVE Split(_, _)
Split(s, sep) ==
    The({IF i < 0 THEN <<s>> ELSE <<Slice(s, 0, i)>> \o Split(Slice(s, i + 1, Len(s)), sep) :
            i \in {Find(s, <<sep>>, 0)}})

\* s.replace(a, b) for one-character a and b
Replace(s, a, b) == [k \in 1..Len(s) |-> IF s[k] = a THEN b ELSE s[k]]

RECURSIVE LStrip(_)
LStrip(s) == IF Len(s) > 0 /\ IsSpace(s[1]) THEN LStrip(Tail(s)) ELSE s

\* s.rstrip()
RECURSIVE RStrip(_)
RStrip(s) == IF Len(s) > 0 /\ IsSpace(s[Len(s)]) THEN RStrip(SubSeq(s, 1, Len(s) - 1)) ELSE s

\* s.strip()
Strip(s) == RStrip(LStrip(s))

\* re.sub(r'\s+', ' ', s): every maximal run of whitespace becomes one space
RECURSIVE CollapseSpace(_)
CollapseSpace(s) == IF Len(s) = 0 THEN <<>>
                    ELSE IF IsSpace(s[1]) THEN <<" ">> \o CollapseSpace(LStrip(s))
                    ELSE <<s[1]>> \o CollapseSpace(Tail(s))

(***************************************************************************)
(* Regular-expression matchers.  A match is a record: ok, start and end    *)
(* are m.start() and m.end(); a..b is group 1 and c..d is group 2 (half    *)
(* open offset ranges); tag is the captured tag name or heading level.     *)
(***************************************************************************)
NoMatch == [ok |-> FALSE, start |-> 0, end |-> 0, a |-> 0, b |-> 0, c |-> 0, d |-> 0, tag |-> <<>>]

Match(start, end, a, b, tag) == [ok |-> TRUE, start |-> start, end |-> end, a |-> a, b |-> b, c |-> 0, d |-> 0, tag |-> tag]

\* the leftmost of a set of matches, NoMatch when none of them is one
FirstOf(S) == IF \E m \in S : m.ok
              THEN CHOOSE m \in S : m.ok /\ \A q \in S : q.ok => m.start <= q.start
              ELSE NoMatch

\* \b at offset o: exactly one of the characters before and after o is a word character
WordBoundary(s, o) == Cardinality({k \in {o, o + 1} : k >= 1 /\ k <= Len(s) /\ IsWord(s[k])}) = 1

\* a literal of the pattern (given in lower case) at offset o under re.IGNORECASE
LitAt(lit, s, o) == /\ o + Len(lit) <= Len(s)
                    /\ \A k \in 1..Len(lit) : Lower(s[o + k]) = lit[k]

\* \s* from offset o: the offset of the first non-space character
RECURSIVE SkipSpace(_, _)
SkipSpace(s, o) == IF o < Len(s) /\ IsSpace(s[o + 1]) THEN SkipSpace(s, o + 1) ELSE o

\* [^"']+ or [0-9]+ from offset o: the offset where the run stops
RECURSIVE ScanValue(_, _, _)
ScanValue(s, o, digitsOnly) ==
    IF o < Len(s) /\ (IF digitsOnly THEN IsDigit(s[o + 1]) ELSE ~IsQuote(s[o + 1]))
    THEN ScanValue(s, o + 1, digitsOnly) ELSE o

\* ["'] at offset p: the offset after the quote, else -1
QuoteAt(s, p) == IF p < Len(s) /\ IsQuote(s[p + 1]) THEN p + 1 ELSE -1

\* =\s*["'] at offset p: the offset after the quote, else -1
EqualsQuoteAt(s, p) == IF p < Len(s) /\ s[p + 1] = "=" THEN QuoteAt(s, SkipSpace(s, p + 1)) ELSE -1

\* \bNAME\s*=\s*["'] at offset o: the offset after the opening quote, else -1
AttrOpenAt(name, s, o) ==
    IF LitAt(name, s, o) /\ WordBoundary(s, o) THEN EqualsQuoteAt(s, SkipSpace(s, o + Len(name))) ELSE -1

\* the value from offset a to offset ve, which a quote must follow
ValueMatch(s, o, a, ve) ==
    IF ve > a /\ ve < Len(s) /\ IsQuote(s[ve + 1]) THEN Match(o, ve + 1, a, ve, <<>>) ELSE NoMatch

\* \bNAME\s*=\s*["']([^"']+)["'] (or ([0-9]+) for the value) at offset o
AttrAt(name, s, o, digitsOnly) ==
    The({IF a < 0 THEN NoMatch ELSE ValueMatch(s, o, a, ScanValue(s, a, digitsOnly)) :
            a \in {AttrOpenAt(name, s, o)}})

\* re.search(r'\bNAME\s*=\s*["\']', s, re.I) is not None
HasAttr(name, s) == \E o \in 0..Len(s) : AttrOpenAt(name, s, o) >= 0

\* re.search(r'\bNAME\s*=\s*["\']([^"\']+)["\']', s, re.I)
AttrSearch(name, s) == FirstOf({AttrAt(name, s, o, FALSE) : o \in 0..Len(s)})

\* m.group(1) if m else ""
Group1(s, m) == IF m.ok THEN Slice(s, m.a, m.b) ELSE <<>>

AttrValue(name, s) == Group1(s, AttrSearch(name, s))

\* least offset >= from where the literal occurs ignoring case, else -1
FindLit(s, lit, from) == MinOr({o \in from..Len(s) : LitAt(lit, s, o)}, -1)

\* the opening tag at offset o whose name ends at offset a and whose first '>' is at gt
TagMatch(tag, o, a, gt) == IF gt >= 0 THEN Match(o, gt + 1, a, gt, tag) ELSE NoMatch

\* <TAG\b([^>]*)\/?> at offset o: group 1 runs to the first '>'
VoidTagAt(tag, s, o) ==
    IF o < Len(s) /\ s[o + 1] = "<" /\ LitAt(tag, s, o + 1) /\ WordBoundary(s, o + 1 + Len(tag))
    THEN TagMatch(tag, o, o + 1 + Len(tag), Find(s, <<">">>, o + 1 + Len(tag)))
    ELSE NoMatch

\* an opening tag with the closing tag of closeLen characters found at offset close
Element(open, close, closeLen) ==
    IF close >= 0 THEN [open EXCEPT !.end = close + closeLen, !.c = open.end, !.d = close] ELSE NoMatch

\* <TAG\b([^>]*)>([\s\S]*?)</TAG> at offset o: the lazy group 2 stops at the first closing tag
ElementAt(tag, s, o) ==
    The({IF open.ok THEN Element(open, FindLit(s, <<"<", "/">> \o tag \o <<">">>, open.end), Len(tag) + 3) ELSE NoMatch :
            open \in {VoidTagAt(tag, s, o)}})

HeadingNames == {<<"h", Digits[n + 1]>> : n \in 1..6}

\* </(h[1-6])> at offset o
HeadingCloseAt(s, o) ==
    /\ o + 5 <= Len(s)
    /\ s[o + 1] = "<" /\ s[o + 2] = "/"
    /\ <<Lower(s[o + 3]), s[o + 4]>> \in HeadingNames
    /\ s[o + 5] = ">"

\* least offset >= from of a closing heading tag, else -1
FindHeadingClose(s, from) == MinOr({k \in from..Len(s) : HeadingCloseAt(s, k)}, -1)

\* <(h[1-6])\b([^>]*)>([\s\S]*?)</(h[1-6])> at offset o; tag is group 1 lower-cased
HeadingAt(s, o) ==
    IF o + 2 < Len(s) /\ s[o + 1] = "<" /\ <<Lower(s[o + 2]), s[o + 3]>> \in HeadingNames
    THEN The({IF open.ok THEN Element(open, FindHeadingClose(s, open.end), 5) ELSE NoMatch :
                open \in {VoidTagAt(<<"h", s[o + 3]>>, s, o)}})
    ELSE NoMatch

ControlNames == {<<"i","n","p","u","t">>, <<"s","e","l","e","c","t">>, <<"t","e","x","t","a","r","e","a">>}

\* <(input|select|textarea)\b([^>]*)\/?> at offset o (group 1 is tag, group 2 is a..b)
ControlAt(s, o) ==
    IF o < Len(s) /\ s[o + 1] = "<" THEN FirstOf({VoidTagAt(t, s, o) : t \in ControlNames}) ELSE NoMatch

\* the tag and attribute names the patterns spell out
Lit == [img |-> <<"i","m","g">>,
        a |-> <<"a">>,
        button |-> <<"b","u","t","t","o","n">>,
        html |-> <<"h","t","m","l">>,
        id |-> <<"i","d">>,
        tabindex |-> <<"t","a","b","i","n","d","e","x">>,
        alt |-> <<"a","l","t">>,
        src |-> <<"s","r","c">>,
        href |-> <<"h","r","e","f">>,
        type |-> <<"t","y","p","e">>,
        name |-> <<"n","a","m","e">>,
        class |-> <<"c","l","a","s","s">>,
        title |-> <<"t","i","t","l","e">>,
        lang |-> <<"l","a","n","g">>,
        for |-> <<"f","o","r">>,
        label |-> <<"l","a","b","e","l">>,
        aria_label |-> <<"a","r","i","a","-","l","a","b","e","l">>,
        aria_labelledby |-> <<"a","r","i","a","-","l","a","b","e","l","l","e","d","b","y">>,
        aria_hidden |-> <<"a","r","i","a","-","h","i","d","d","e","n">>]

\* [a-z0-9\-] under re.IGNORECASE
IsTagChar(c) == Lower(c) \in DOMAIN ToUpper \/ IsDigit(c) \/ c = "-"

\* true["'] at offset q: the offset after the closing quote, else -1
TrueQuoteAt(s, q) ==
    IF q >= 0 /\ LitAt(<<"t","r","u","e">>, s, q) /\ q + 4 < Len(s) /\ IsQuote(s[q + 5]) THEN q + 5 ELSE -1

\* aria-hidden\s*=\s*["']true["'] at offset p: the offset after the closing quote, else -1
AriaHiddenTrueAt(s, p) ==
    IF LitAt(Lit.aria_hidden, s, p)
    THEN TrueQuoteAt(s, EqualsQuoteAt(s, SkipSpace(s, p + Len(Lit.aria_hidden))))
    ELSE -1

\* ([a-z0-9\-]+)\b([^>]*)aria-hidden\s*=\s*["']true["'] between offset o + 1 and the '>' at gt
AriaHiddenBefore(s, o, gt) ==
    \E n \in 1..(gt - o - 1) :
        /\ \A k \in 1..n : IsTagChar(s[o + 1 + k])
        /\ WordBoundary(s, o + 1 + n)
        /\ \E p \in (o + 1 + n)..gt : AriaHiddenTrueAt(s, p) \in 0..gt

\* <([a-z0-9\-]+)\b([^>]*)aria-hidden\s*=\s*["']true["']([^>]*)> at offset o:
\* no part of the pattern crosses a '>', so the match ends at the first '>' after o
AriaHiddenAt(s, o) ==
    IF o < Len(s) /\ s[o + 1] = "<"
    THEN The({IF gt >= 0 /\ AriaHiddenBefore(s, o, gt) THEN Match(o, gt + 1, 0, 0, <<>>) ELSE NoMatch :
                gt \in {Find(s, <<">">>, o)}})
    ELSE NoMatch

\* the pattern of one rule, tried at offset o
MatchAt(kind, s, o) ==
    CASE kind = "img" -> VoidTagAt(Lit.img, s, o)
      [] kind = "control" -> ControlAt(s, o)
      [] kind = "a" -> ElementAt(Lit.a, s, o)
      [] kind = "button" -> ElementAt(Lit.button, s, o)
      [] kind = "heading" -> HeadingAt(s, o)
      [] kind = "html" -> VoidTagAt(Lit.html, s, o)
      [] kind = "id" -> AttrAt(Lit.id, s, o, FALSE)
      [] kind = "tabindex" -> AttrAt(Lit.tabindex, s, o, TRUE)
      [] kind = "aria_hidden" -> AriaHiddenAt(s, o)

\* re.search(pattern, s): the leftmost match
Search(kind, s) == FirstOf({MatchAt(kind, s, o) : o \in 0..Len(s)})

\* of the matches at[o + 1] found at each offset o, the successive non-overlapping
\* ones from offset from on, left to right
RECURSIVE NonOverlapping(_, _)
NonOverlapping(at, from) ==
    The({IF o < 0 THEN <<>> ELSE <<at[o + 1]>> \o NonOverlapping(at, at[o + 1].end) :
            o \in {MinOr({q \in from..(Len(at) - 1) : at[q + 1].ok}, -1)}})

\* re.finditer(pattern, s)
FindIter(kind, s) == NonOverlapping([k \in 1..(Len(s) + 1) |-> MatchAt(kind, s, k - 1)], 0)

\* m.group(0)
Group0(s, m) == Slice(s, m.start, m.end)

(***************************************************************************)
(* Utilities.                                                              *)
(***************************************************************************)
\* offset_to_pos with the column taken over the whole prefix (a plausible slip)
offset_to_pos_whole_prefix(text, offset) ==
    LET prefix == Slice(text, 0, Min(Max(offset, 0), Len(text)))
    IN [line |-> Len(Split(prefix, "\n")) - 1, column |-> Len(prefix)]

offset_to_pos(text, offset) ==
    LET off1 == IF offset < 0 THEN 0 ELSE offset
        off2 == IF off1 > Len(text) THEN Len(text) ELSE off1
    IN The({[line |-> Len(lines) - 1, column |-> Len(lines[Len(lines)])] :
               lines \in {Split(Slice(text, 0, off2), "\n")}})

Ellipsis == <<".", ".", ".">>

\* t is s after strip, re.sub and replace; if len(t) > max_len: t = t[:max_len].rstrip() + "..."
sanitize_text_for_attr(s, max_len) ==
    IF Len(s) = 0 THEN <<>>
    ELSE The({IF Len(t) > max_len THEN RStrip(Slice(t, 0, max_len)) \o Ellipsis ELSE t :
                 t \in {Replace(CollapseSpace(Strip(s)), "\"", "'")}})

\* default of the max_len parameter
DefaultMaxLen == 60

sanitize(s) == sanitize_text_for_attr(s, DefaultMaxLen)

(***************************************************************************)
(* Heuristic guessers.                                                     *)
(***************************************************************************)
T_Image == <<"I","m","a","g","e">>

\* os.path.basename(p)
basename(p) == Slice(p, RFind(p, <<"/">>) + 1, Len(p))

\* os.path.splitext(p)[0]: the last dot splits unless only dots precede it in the file name
splitext_root(p) ==
    LET sep == RFind(p, <<"/">>)
        dot == RFind(p, <<".">>)
    IN IF dot > sep /\ \E k \in (sep + 1)..(dot - 1) : p[k + 1] # "."
       THEN Slice(p, 0, dot) ELSE p

IsSeparator(c) == c \in {"_", "-", "+"}

RECURSIVE SkipSeparators(_)
SkipSeparators(s) == IF Len(s) > 0 /\ IsSeparator(s[1]) THEN SkipSeparators(Tail(s)) ELSE s

\* re.sub(r'[_\-\+]+', ' ', s)
RECURSIVE SubSeparators(_)
SubSeparators(s) == IF Len(s) = 0 THEN <<>>
                    ELSE IF IsSeparator(s[1]) THEN <<" ">> \o SubSeparators(SkipSeparators(s))
                    ELSE <<s[1]>> \o SubSeparators(Tail(s))

GenericTokens == {<<"i","m","g">>, <<"i","m","a","g","e">>, <<"p","h","o","t","o">>, <<"p","i","c","t","u","r","e">>}

\* \b(t1|t2|...)\b at offset o, ignoring case
WordAt(tokens, s, o) == \E t \in tokens : WordBoundary(s, o) /\ LitAt(t, s, o) /\ WordBoundary(s, o + Len(t))

\* re.search(r'\b(t1|t2|...)\b', s) is not None
WordSearch(tokens, s) == \E o \in 0..Len(s) : WordAt(tokens, s, o)

\* re.sub(r'\b(img|image|photo|picture)\b', '', s, flags=re.I), scanning from offset o
RECURSIVE SubGenericFrom(_, _)
SubGenericFrom(s, o) ==
    IF o >= Len(s) THEN <<>>
    ELSE IF WordAt(GenericTokens, s, o)
         THEN SubGenericFrom(s, o + Len(CHOOSE t \in GenericTokens : LitAt(t, s, o) /\ WordBoundary(s, o + Len(t))))
         ELSE <<s[o + 1]>> \o SubGenericFrom(s, o + 1)

\* re.sub(r'\d+', '', s)
SubDigits(s) == SelectSeq(s, LAMBDA c : ~IsDigit(c))

\* src1 is the src without query and fragment, name the cleaned file name
guess_alt_from_src(src) ==
    IF Len(src) = 0 THEN T_Image
    ELSE The({IF StartsAt(<<"d","a","t","a",":">>, src1, 0) THEN T_Image
              ELSE The({IF Len(name) = 0 THEN T_Image ELSE <<Upper(name[1])>> \o Tail(name) :
                           name \in {Strip(sanitize(SubDigits(SubGenericFrom(SubSeparators(splitext_root(basename(src1))), 0))))}}) :
                 src1 \in {Split(Split(src, "?")[1], "#")[1]}})

\* re.sub(r'<[^>]*>', '', s), or r'<[^>]+>' when nonEmpty
RECURSIVE SubTags(_, _)
SubTags(s, nonEmpty) ==
    IF Len(s) = 0 THEN <<>>
    ELSE LET gt == Find(s, <<">">>, 1)
         IN IF s[1] = "<" /\ gt >= (IF nonEmpty THEN 2 ELSE 1)
            THEN SubTags(Slice(s, gt + 1, Len(s)), nonEmpty)
            ELSE <<s[1]>> \o SubTags(Tail(s), nonEmpty)

guess_button_label_from_attrs(attrs, inner_html) ==
    LET attrs_l == LowerStr(attrs)
        inner_l == LowerStr(inner_html)
        visible_text == Strip(SubTags(inner_html, FALSE))
    IN IF Len(visible_text) > 0 THEN sanitize(visible_text)
       ELSE IF \/ WordSearch({<<"c","l","o","s","e">>, <<"d","i","s","m","i","s","s">>, <<"c","a","n","c","e","l">>, <<"c","l","o","s","e","-","b","t","n">>}, attrs_l)
               \/ WordSearch({<<"c","l","o","s","e">>}, inner_l)
            THEN <<"C","l","o","s","e">>
       ELSE IF WordSearch({<<"s","u","b","m","i","t">>, <<"s","e","n","d">>, <<"s","a","v","e">>, <<"c","o","n","f","i","r","m">>}, attrs_l)
            THEN <<"S","u","b","m","i","t">>
       ELSE IF WordSearch({<<"s","e","a","r","c","h">>, <<"f","i","n","d">>}, attrs_l)
            THEN <<"S","e","a","r","c","h">>
       ELSE IF WordSearch({<<"m","e","n","u">>, <<"o","p","e","n","-","m","e","n","u">>, <<"t","o","g","g","l","e">>}, attrs_l)
            THEN <<"O","p","e","n"," ","m","e","n","u">>
       ELSE IF WordSearch({<<"n","e","x","t">>, <<"p","r","e","v">>, <<"p","r","e","v","i","o","u","s">>}, attrs_l)
            THEN <<"N","e","x","t">>
       ELSE IF \/ \E o \in 0..Len(inner_html) : LitAt(<<"<","s","v","g">>, inner_html, o) /\ WordBoundary(inner_html, o + 4)
               \/ WordSearch({<<"i","c","o","n">>}, attrs_l)
            THEN <<"I","c","o","n"," ","b","u","t","t","o","n">>
       ELSE <<"B","u","t","t","o","n">>

\* s.replace("_", " ").replace("-", " ")
SpaceOut(s) == Replace(Replace(s, "_", " "), "-", " ")

\* s.split()[0] for a string with a non-space character
RECURSIVE FirstWord(_)
FirstWord(s) == IF Len(s) = 0 \/ IsSpace(s[1]) THEN <<>> ELSE <<s[1]>> \o FirstWord(Tail(s))

\* The result is a record: raised tells that the call raised (IndexError of
\* class_val.split()[0] on a class value of white space), label is the value returned.
guess_input_label_from_attrs(tag_name, attrs) ==
    LET email == <<"e","m","a","i","l">>
        password == <<"p","a","s","s","w","o","r","d">>
        search == <<"s","e","a","r","c","h">>
        Return(l) == [raised |-> FALSE, label |-> l]
    IN The({
       IF Contains(type_val, email) \/ Contains(name_val, email) \/ Contains(id_val, email) \/ Contains(class_val, email)
       THEN Return(<<"E","m","a","i","l"," ","a","d","d","r","e","s","s">>)
       ELSE IF Contains(type_val, password) \/ Contains(name_val, password) \/ Contains(id_val, password)
       THEN Return(<<"P","a","s","s","w","o","r","d">>)
       ELSE IF Contains(type_val, <<"t","e","l">>) \/ Contains(name_val, <<"p","h","o","n","e">>)
       THEN Return(<<"P","h","o","n","e"," ","n","u","m","b","e","r">>)
       ELSE IF Contains(type_val, search) \/ Contains(name_val, search)
       THEN Return(<<"S","e","a","r","c","h">>)
       ELSE IF Contains(type_val, <<"d","a","t","e">>)
       THEN Return(<<"D","a","t","e">>)
       ELSE IF Contains(type_val, <<"n","u","m","b","e","r">>)
       THEN Return(<<"N","u","m","b","e","r">>)
       ELSE IF Len(name_val) > 0 THEN Return(sanitize(SpaceOut(name_val)))
       ELSE IF Len(id_val) > 0 THEN Return(sanitize(SpaceOut(id_val)))
       ELSE IF Len(class_val) > 0
       THEN IF Len(LStrip(class_val)) = 0 THEN [raised |-> TRUE, label |-> <<>>]
            ELSE Return(sanitize(Replace(FirstWord(LStrip(class_val)), "-", " ")))
       ELSE Return(<<"I","n","p","u","t"," ","f","i","e","l","d">>) :
          type_val \in {LowerStr(AttrValue(Lit.type, attrs))}, name_val \in {AttrValue(Lit.name, attrs)},
          id_val \in {AttrValue(Lit.id, attrs)}, class_val \in {AttrValue(Lit.class, attrs)}})

SocialNames == <<<<"t","w","i","t","t","e","r">>, <<"f","a","c","e","b","o","o","k">>, <<"l","i","n","k","e","d","i","n">>, <<"i","n","s","t","a","g","r","a","m">>, <<"y","o","u","t","u","b","e">>, <<"g","i","t","h","u","b">>>>

\* s.capitalize()
Capitalize(s) == [k \in 1..Len(s) |-> IF k = 1 THEN Upper(s[k]) ELSE Lower(s[k])]

\* s.strip("/")
RECURSIVE StripSlashes(_)
StripSlashes(s) == IF Len(s) > 0 /\ s[1] = "/" THEN StripSlashes(Tail(s))
                   ELSE IF Len(s) > 0 /\ s[Len(s)] = "/" THEN StripSlashes(SubSeq(s, 1, Len(s) - 1))
                   ELSE s

\* length of a match of https?://(www\.)? at the head of s, 0 when there is none
SchemeLen(s) ==
    LET n == IF StartsAt(<<"h","t","t","p","s",":","/","/">>, s, 0) THEN 8
             ELSE IF StartsAt(<<"h","t","t","p",":","/","/">>, s, 0) THEN 7 ELSE 0
    IN IF n > 0 /\ StartsAt(<<"w","w","w",".">>, s, n) THEN n + 4 ELSE n

\* re.sub(r"https?://(www\.)?", "", s)
RECURSIVE SubScheme(_)
SubScheme(s) ==
    IF Len(s) = 0 THEN <<>>
    ELSE The({IF n > 0 THEN SubScheme(Slice(s, n, Len(s))) ELSE <<s[1]>> \o SubScheme(Tail(s)) :
                 n \in {SchemeLen(s)}})

\* visible is the text of the link without its tags; href_l the href in lower case;
\* part is href_l.strip("/").split("/")[0]; h is the host before and host after
\* host.split(".")[-2] if "." in host else host and sanitize_text_for_attr
guess_link_label_from_href(href, inner_html) ==
    IF Len(href) = 0
    THEN The({IF Len(visible) > 0 THEN sanitize(visible) ELSE <<"L","i","n","k">> :
                 visible \in {Strip(SubTags(inner_html, TRUE))}})
    ELSE The({
        IF \E k \in 1..Len(SocialNames) : Contains(href_l, SocialNames[k])
        THEN <<"V","i","s","i","t"," ">> \o Capitalize(SocialNames[MinOr({k \in 1..Len(SocialNames) : Contains(href_l, SocialNames[k])}, 0)])
        ELSE IF StartsAt(<<"/">>, href_l, 0)
        THEN <<"G","o"," ","t","o"," ">>
             \o sanitize(Replace(The({IF Len(part) > 0 THEN part ELSE <<"p","a","g","e">> :
                                         part \in {Split(StripSlashes(href_l), "/")[1]}}), "-", " "))
        ELSE The({IF Len(host) > 0 THEN <<"V","i","s","i","t"," ">> \o Capitalize(host) ELSE <<"V","i","s","i","t"," ","l","i","n","k">> :
                     host \in {sanitize(The({IF Contains(h, <<".">>) THEN Split(h, ".")[Len(Split(h, ".")) - 1] ELSE h :
                                                h \in {Split(Split(SubScheme(href_l), "/")[1], ":")[1]}}))}}) :
            href_l \in {LowerStr(href)}})

(***************************************************************************)
(* The captioning collaborator.  What the BLIP model answers is outside    *)
(* the program: an outcome either fails somewhere inside the try block     *)
(* (decode, model load, inference) or yields a caption.                    *)
(***************************************************************************)
CaptionOutcomes == {[failed |-> TRUE, caption |-> <<>>], [failed |-> FALSE, caption |-> <<"A"," ","c","a","t">>]}

\* max_len passed by caption_base64_image
CaptionMaxLen == 100

caption_base64_image(b64, outcome) ==
    IF outcome.failed THEN T_Image ELSE sanitize_text_for_attr(outcome.caption, CaptionMaxLen)

(***************************************************************************)
(* Rules.  A rule yields the edits it appends, each as a record of the     *)
(* offsets it computed (so, eo) and newText; Edit turns one into the       *)
(* dictionary the rule appends.                                            *)
(***************************************************************************)
RECURSIVE Concat(_)
Concat(ss) == IF Len(ss) = 0 THEN <<>> ELSE ss[1] \o Concat(Tail(ss))

Raw(so, eo, newText) == [so |-> so, eo |-> eo, newText |-> newText]

\* an edit that inserts newText at offset pos
Insertion(pos, newText) == Raw(pos, pos, newText)

Edit(text, r) == [start |-> offset_to_pos(text, r.so), end |-> offset_to_pos(text, r.eo), newText |-> r.newText]

Edits(text, raws) == [k \in 1..Len(raws) |-> Edit(text, raws[k])]

\* i if i >= 0 else d
OrElse(i, d) == IF i >= 0 THEN i ELSE d

\* m.start() + (m.group(0).rfind(">") if m.group(0).rfind(">") >= 0 else len(m.group(0)))
InsertBeforeLastGt(text, m) == m.start + OrElse(RFind(Group0(text, m), <<">">>), m.end - m.start)

\* m.start() + (m.group(0).find(">") if m.group(0).find(">") >= 0 else 0)
InsertBeforeFirstGt(text, m) == m.start + OrElse(Find(Group0(text, m), <<">">>, 0), 0)

AltAttr(label) == <<" ","a","l","t","=","\"">> \o label \o <<"\"">>

AriaLabelAttr(label) == <<" ","a","r","i","a","-","l","a","b","e","l","=","\"">> \o label \o <<"\"">>

\* one iteration of the loop of rule_image_alt: match m with attributes attrs;
\* answer is what the collaborator answers if it is called
image_alt_edit(text, m, attrs, md, mlav, answer) ==
    IF HasAttr(Lit.alt, attrs) THEN <<>>
    ELSE <<Insertion(InsertBeforeLastGt(text, m),
                     AltAttr(sanitize(The({IF md = "ml" /\ mlav /\ StartsAt(<<"d","a","t","a",":">>, src_val, 0)
                                           THEN caption_base64_image(src_val, answer)
                                           ELSE guess_alt_from_src(src_val) :
                                              src_val \in {AttrValue(Lit.src, attrs)}}))))>>

\* answers[k] is what the collaborator answers if it is called for the k-th image
rule_image_alt(text, md, mlav, answers) ==
    The({Concat([k \in 1..Len(ms) |-> image_alt_edit(text, ms[k], Group1(text, ms[k]), md, mlav, answers[k])]) :
            ms \in {FindIter("img", text)}})

\* re.search(rf'<label\b[^>]*\bfor\s*=\s*["\']{re.escape(idv)}["\']', text, re.I) is not None
LabelFor(text, idv) ==
    \E o \in 0..Len(text) :
        /\ LitAt(Lit.label, text, o + 1)
        /\ text[o + 1] = "<"
        /\ WordBoundary(text, o + 6)
        /\ \E p \in (o + 6)..Len(text) :
              /\ \A q \in (o + 6)..(p - 1) : text[q + 1] # ">"
              /\ \E e \in {AttrOpenAt(Lit.for, text, p)} :
                    /\ e >= 0
                    /\ LitAt(LowerStr(idv), text, e)
                    /\ e + Len(idv) < Len(text)
                    /\ IsQuote(text[e + Len(idv) + 1])

\* one iteration of the loop of rule_input_label: match m with attributes attrs;
\* raised tells that the guesser raised
input_label_edit(text, m, attrs) ==
    IF \/ HasAttr(Lit.aria_label, attrs)
       \/ HasAttr(Lit.aria_labelledby, attrs)
       \/ \E id_m \in {AttrSearch(Lit.id, attrs)} : id_m.ok /\ LabelFor(text, Group1(attrs, id_m))
    THEN [raised |-> FALSE, raws |-> <<>>]
    ELSE The({[raised |-> g.raised,
               raws |-> IF g.raised THEN <<>> ELSE <<Insertion(InsertBeforeLastGt(text, m), AriaLabelAttr(g.label))>>] :
                 g \in {guess_input_label_from_attrs(LowerStr(m.tag), attrs)}})

\* the iterations rs from the k-th on, ended by the first that raised
RECURSIVE UntilRaised(_, _)
UntilRaised(rs, k) ==
    IF k > Len(rs) THEN [raised |-> FALSE, raws |-> <<>>]
    ELSE IF rs[k].raised THEN [raised |-> TRUE, raws |-> <<>>]
    ELSE [UntilRaised(rs, k + 1) EXCEPT !.raws = rs[k].raws \o @]

\* the record tells whether a guesser raised, which ends generate with that exception
rule_input_label(text) ==
    The({UntilRaised([k \in 1..Len(ms) |-> input_label_edit(text, ms[k], Slice(text, ms[k].a, ms[k].b))], 1) :
            ms \in {FindIter("control", text)}})

\* one iteration of the loop of rule_link_name: match m, its groups, and the search
\* for an image in group 2, which is then located by inner.find(img_m.group(0))
link_name_edit(text, m, attrs, inner, img_m) ==
    IF HasAttr(Lit.aria_label, attrs) THEN <<>>
    ELSE IF Len(Strip(SubTags(inner, FALSE))) > 0 THEN <<>>
    ELSE IF img_m.ok /\ ~HasAttr(Lit.alt, Group1(inner, img_m))
    THEN <<Insertion(The({m.c + Find(inner, img_g, 0) + OrElse(RFind(img_g, <<">">>), Len(img_g)) :
                             img_g \in {Group0(inner, img_m)}}),
                     AltAttr(guess_alt_from_src(AttrValue(Lit.src, Group1(inner, img_m)))))>>
    ELSE <<Insertion(InsertBeforeFirstGt(text, m),
                     AriaLabelAttr(guess_link_label_from_href(AttrValue(Lit.href, attrs), inner)))>>

rule_link_name(text) ==
    The({Concat([k \in 1..Len(ms) |->
                    link_name_edit(text, ms[k], Slice(text, ms[k].a, ms[k].b), Slice(text, ms[k].c, ms[k].d),
                                   Search("img", Slice(text, ms[k].c, ms[k].d)))]) :
            ms \in {FindIter("a", text)}})

\* one iteration of the loop of rule_button_name: match m and its groups
button_name_edit(text, m, attrs, inner) ==
    IF HasAttr(Lit.aria_label, attrs) \/ HasAttr(Lit.aria_labelledby, attrs) \/ HasAttr(Lit.title, attrs) THEN <<>>
    ELSE IF Len(Strip(SubTags(inner, FALSE))) > 0 THEN <<>>
    ELSE <<Insertion(InsertBeforeFirstGt(text, m), AriaLabelAttr(guess_button_label_from_attrs(attrs, inner)))>>

rule_button_name(text) ==
    The({Concat([k \in 1..Len(ms) |->
                    button_name_edit(text, ms[k], Slice(text, ms[k].a, ms[k].b), Slice(text, ms[k].c, ms[k].d))]) :
            ms \in {FindIter("button", text)}})

\* occurrences: the (idval, idx) pairs in document order,
\* idx = m.start() + match_str.lower().find(idval.lower())
id_occurrences(text) ==
    The({[k \in 1..Len(ms) |->
            [idval |-> Group1(text, ms[k]),
             idx |-> ms[k].start + Find(LowerStr(Group0(text, ms[k])), LowerStr(Group1(text, ms[k])), 0)]] :
            ms \in {FindIter("id", text)}})

\* groups.items() runs in order of each value's first occurrence; arr keeps document order
rule_duplicate_id(text) ==
    The({LET IsFirst(k) == \A j \in 1..(k - 1) : occ[j].idval # occ[k].idval
             \* position i of occurrence j within its group (0 for the first)
             IndexInGroup(j) == Cardinality({q \in 1..(j - 1) : occ[q].idval = occ[j].idval})
             Member(k, j) ==
                 IF j > k /\ occ[j].idval = occ[k].idval
                 THEN <<Raw(occ[j].idx, occ[j].idx + Len(occ[j].idval), occ[j].idval \o <<"-">> \o Str(IndexInGroup(j)))>>
                 ELSE <<>>
             Group(k) == IF IsFirst(k) THEN Concat([j \in 1..Len(occ) |-> Member(k, j)]) ELSE <<>>
         IN Concat([k \in 1..Len(occ) |-> Group(k)]) :
            occ \in {id_occurrences(text)}})

\* last = None
None == 0

\* the loop without the test that last is set: the first heading is compared with level 0
RECURSIVE heading_walk_unguarded(_, _, _)
heading_walk_unguarded(headings, k, last) ==
    IF k > Len(headings) THEN <<>>
    ELSE LET level == headings[k].level
             fix == level > last + 1
         IN <<[headings[k] EXCEPT !.target = IF fix THEN last + 1 ELSE None]>>
            \o heading_walk_unguarded(headings, k + 1, level)

\* the loop over headings: target is last + 1 where the heading is corrected, None elsewhere
RECURSIVE heading_walk(_, _, _)
heading_walk(headings, k, last) ==
    IF k > Len(headings) THEN <<>>
    ELSE LET level == headings[k].level
             fix == last # None /\ level > last + 1
         IN <<[headings[k] EXCEPT !.target = IF fix THEN last + 1 ELSE None]>>
            \o heading_walk(headings, k + 1, level)

\* headings: (m.start(), m.group(0), level) per match
find_headings(text) ==
    The({[k \in 1..Len(ms) |-> [start_pos |-> ms[k].start, block |-> Group0(text, ms[k]),
                                level |-> DigitVal(ms[k].tag[2]), target |-> None]] :
            ms \in {FindIter("heading", text)}})

HName(level) == <<"h", Digits[level + 1]>>

HeadingWarning(h) == <<"Changed heading level", h.level, h.target, h.start_pos>>

\* the body of the loop for a heading h: block.find and block.rfind give the offsets
heading_edits(h) ==
    IF h.target = None THEN <<>>
    ELSE The({<< Raw(open_abs, open_abs + Len(HName(h.level)), HName(h.target)),
                 Raw(close_abs, close_abs + Len(HName(h.level)), HName(h.target)) >> :
                 open_abs \in {h.start_pos + Find(h.block, HName(h.level), 0)},
                 close_abs \in {h.start_pos + RFind(h.block, <<"<", "/">> \o HName(h.level) \o <<">">>) + 2}})

\* the edits and the warnings of the headings as walked
rule_heading_order(text) ==
    The({[raws |-> Concat([k \in 1..Len(walk) |-> heading_edits(walk[k])]),
          warnings |-> Concat([k \in 1..Len(walk) |-> IF walk[k].target = None THEN <<>> ELSE <<HeadingWarning(walk[k])>>])] :
            walk \in {heading_walk(find_headings(text), 1, None)}})

\* val = int(m.group(1)); val_start = m.start(1)
rule_no_positive_tabindex(text) ==
    The({Concat([k \in 1..Len(ms) |->
                    IF ParseInt(Group1(text, ms[k])) > 0
                    THEN <<Raw(ms[k].a, ms[k].a + (ms[k].b - ms[k].a), <<"0">>)>> ELSE <<>>]) :
            ms \in {FindIter("tabindex", text)}})

rule_html_lang(text) ==
    The({IF m.ok /\ ~HasAttr(Lit.lang, Group1(text, m))
         THEN <<Insertion(m.start + RFind(Group0(text, m), <<">">>), <<" ","l","a","n","g","=","\"","e","n","\"">>)>>
         ELSE <<>> :
            m \in {Search("html", text)}})

\* rule_form_control_has_label is a placeholder (pass): it appends nothing
rule_form_control_has_label(text) == <<>>

\* size of the window scanned after an aria-hidden tag
SnippetLen == 400

\* re.search(r'(tabindex\s*=\s*["\']0["\']|href=|<button\b|<a\b|<input\b|<select\b|<textarea\b)', snippet, re.I)
HasFocusable(snippet) ==
    \E o \in 0..Len(snippet) :
        \/ /\ LitAt(Lit.tabindex, snippet, o)
           /\ \E q \in {EqualsQuoteAt(snippet, SkipSpace(snippet, o + Len(Lit.tabindex)))} :
                 q >= 0 /\ q + 1 < Len(snippet) /\ snippet[q + 1] = "0" /\ IsQuote(snippet[q + 2])
        \/ LitAt(<<"h","r","e","f","=">>, snippet, o)
        \/ \E tag \in {Lit.button, Lit.a} \cup ControlNames :
              LitAt(<<"<">> \o tag, snippet, o) /\ WordBoundary(snippet, o + 1 + Len(tag))

AriaHiddenWarning == <<"aria-hidden element contains focusable children", 0, 0, 0>>

\* the aria-hidden loop at the end of generate: one warning per match with focusable text nearby
aria_hidden_scan(text) ==
    The({Concat([k \in 1..Len(ms) |->
                    IF HasFocusable(Slice(text, ms[k].end, ms[k].end + SnippetLen)) THEN <<AriaHiddenWarning>> ELSE <<>>]) :
            ms \in {FindIter("aria_hidden", text)}})

(***************************************************************************)
(* The collector at the end of generate.                                   *)
(***************************************************************************)
\* key of the deduplication
DedupKey(e) == <<e.start.line, e.start.column, e.end.line, e.end.column, e.newText>>

\* if key in seen: continue; else unique.append(e)
AppendUnseen(unique, e) ==
    IF \E j \in 1..Len(unique) : DedupKey(unique[j]) = DedupKey(e) THEN unique ELSE Append(unique, e)

\* unique: the edits whose key was not seen before, in first-seen order
RECURSIVE dedupe(_)
dedupe(es) == IF Len(es) = 0 THEN <<>> ELSE AppendUnseen(dedupe(SubSeq(es, 1, Len(es) - 1)), es[Len(es)])

\* key of the sort
SortKey(e) == <<e.start.line, e.start.column>>

KeyLess(k1, k2) == k1[1] < k2[1] \/ (k1[1] = k2[1] /\ k1[2] < k2[2])

\* es with e put in after its first n elements
InsertAfter(es, n, e) == SubSeq(es, 1, n) \o <<e>> \o SubSeq(es, n + 1, Len(es))

\* an ascending sort that is then reversed: equal keys come out in reverse order,
\* e goes in front of every edit whose key is not greater than its own
RECURSIVE sort_then_reverse(_)
sort_then_reverse(es) ==
    IF Len(es) = 0 THEN <<>>
    ELSE InsertAfter(sort_then_reverse(SubSeq(es, 1, Len(es) - 1)),
                     Cardinality({j \in 1..(Len(es) - 1) : KeyLess(SortKey(es[Len(es)]), SortKey(es[j]))}),
                     es[Len(es)])

\* list.sort(key=..., reverse=True) is stable: edits with equal keys keep their order,
\* e goes after every edit whose key is not smaller than its own
RECURSIVE sort_descending(_)
sort_descending(es) ==
    IF Len(es) = 0 THEN <<>>
    ELSE InsertAfter(sort_descending(SubSeq(es, 1, Len(es) - 1)),
                     Cardinality({j \in 1..(Len(es) - 1) : ~KeyLess(SortKey(es[j]), SortKey(es[Len(es)]))}),
                     es[Len(es)])

collect(es) == sort_descending(dedupe(es))

(***************************************************************************)
(* generate: one request, from its arrival to the returned result.  pc is  *)
(* the statement of generate that runs next.                               *)
(***************************************************************************)
MAX_CHARS == 600000

TruncationWarning == <<"Input truncated due to size.", 0, 0, 0>>

\* the markup fragments requests are built from
Fragments == {
    <<"<","h","1",">","A","<","/","h","1",">">>,
    <<"<","h","1",">","A","<","/","h","1",">","<","h","3",">","B","<","/","h","3",">">>,
    <<"<","h","4",">","C","<","/","h","4",">">>,
    <<"<","H","3",">","B","<","/","H","3",">">>,
    <<"<","h","3",">","B","<","/","h","4",">">>,
    <<"<","i","m","g"," ","i","d","=","\"","a",">","b","\"",">">>,
    <<"<","a",">","<","i","m","g"," ","s","r","c","=","\"","d","a","t","a",":","x","\"",">","<","/","a",">">>,
    <<"<","p"," ","i","d","=","\"","i","\"",">">>,
    <<"<","i","n","p","u","t"," ","n","a","m","e","=","\"","_","\"",">","<","i","m","g"," ","s","r","c","=","\"","m","y","-","c","o","o","l","_","p","h","o","t","o","1",".","p","n","g","\"",">">>,
    <<"<","d","i","v"," ","a","r","i","a","-","h","i","d","d","e","n","=","\"","t","r","u","e","\"",">","<","a"," ","t","a","b","i","n","d","e","x","=","\"","5","\"",">","<","/","a",">">>,
    <<"<","h","t","m","l",">","<","b","u","t","t","o","n"," ","c","l","a","s","s","=","\"","c","l","o","s","e","\"",">","<","/","b","u","t","t","o","n",">">>,
    <<"<","i","n","p","u","t"," ","c","l","a","s","s","=","\""," ","\"",">">>,
    <<"\n">> }

\* most fragments in one request
MaxFrags == 2

Requests == {Concat(fs) : fs \in UNION {[1..n -> Fragments] : n \in 0..MaxFrags}}

Init ==
    /\ code \in Requests
    /\ mode \in {"heuristic", "ml"}
    /\ ml_available \in BOOLEAN
    /\ outcomes = <<>>
    /\ edits = <<>>
    /\ warnings = <<>>
    /\ emitted = <<>>
    /\ pc = "receive"
    /\ call = [fn |-> "generate"]
    /\ ret = <<>>

\* What generate returns for a request, as one value: the rules in their fixed order,
\* the aria-hidden loop, then the collector.
generate_result(text, md, mlav, answers) ==
    The({The({[raised |-> input_label.raised,
               edits |-> collect(Edits(t, rule_image_alt(t, md, mlav, answers)
                                          \o input_label.raws
                                          \o rule_link_name(t)
                                          \o rule_button_name(t)
                                          \o rule_duplicate_id(t)
                                          \o heading_order.raws
                                          \o rule_no_positive_tabindex(t)
                                          \o rule_html_lang(t)
                                          \o rule_form_control_has_label(t))),
               warnings |-> (IF Len(text) > MAX_CHARS THEN <<TruncationWarning>> ELSE <<>>)
                            \o heading_order.warnings \o aria_hidden_scan(t)] :
                 input_label \in {rule_input_label(t)}, heading_order \in {rule_heading_order(t)}}) :
            t \in {IF Len(text) > MAX_CHARS THEN Slice(text, 0, MAX_CHARS) ELSE text}})

\* the rule appends its edits; emitted logs the offsets each was computed from
Append_edits(rule, raws) ==
    /\ edits' = edits \o Edits(code, raws)
    /\ emitted' = emitted \o [k \in 1..Len(raws) |-> [rule |-> rule, so |-> raws[k].so, eo |-> raws[k].eo, newText |-> raws[k].newText]]

Receive ==
    /\ pc = "receive"
    /\ code' = IF Len(code) > MAX_CHARS THEN Slice(code, 0, MAX_CHARS) ELSE code
    /\ warnings' = IF Len(code) > MAX_CHARS THEN Append(warnings, TruncationWarning) ELSE warnings
    /\ pc' = "rule_image_alt"
    /\ UNCHANGED <<mode, ml_available, outcomes, edits, emitted, call, ret>>

\* the answers the collaborator may give to the calls of one request
Unasked(text) == [k \in 1..Len(FindIter("img", text)) |-> [failed |-> TRUE, caption |-> <<>>]]

OutcomeChoices(text, md, mlav) ==
    IF md = "ml" /\ mlav THEN [1..Len(FindIter("img", text)) -> CaptionOutcomes] ELSE {Unasked(text)}

RuleImageAlt ==
    /\ pc = "rule_image_alt"
    /\ \E answers \in OutcomeChoices(code, mode, ml_available) :
          /\ Append_edits("image_alt", rule_image_alt(code, mode, ml_available, answers))
          /\ outcomes' = answers
    /\ pc' = "rule_input_label"
    /\ UNCHANGED <<code, mode, ml_available, warnings, call, ret>>

RuleInputLabel ==
    /\ pc = "rule_input_label"
    /\ \E r \in {rule_input_label(code)} :
          /\ Append_edits("input_label", r.raws)
          /\ pc' = IF r.raised THEN "raised" ELSE "rule_link_name"
    /\ UNCHANGED <<code, mode, ml_available, outcomes, warnings, call, ret>>

RuleLinkName ==
    /\ pc = "rule_link_name"
    /\ Append_edits("link_name", rule_link_name(code))
    /\ pc' = "rule_button_name"
    /\ UNCHANGED <<code, mode, ml_available, outcomes, warnings, call, ret>>

RuleButtonName ==
    /\ pc = "rule_button_name"
    /\ Append_edits("button_name", rule_button_name(code))
    /\ pc' = "rule_duplicate_id"
    /\ UNCHANGED <<code, mode, ml_available, outcomes, warnings, call, ret>>

RuleDuplicateId ==
    /\ pc = "rule_duplicate_id"
    /\ Append_edits("duplicate_id", rule_duplicate_id(code))
    /\ pc' = "rule_heading_order"
    /\ UNCHANGED <<code, mode, ml_available, outcomes, warnings, call, ret>>

RuleHeadingOrder ==
    /\ pc = "rule_heading_order"
    /\ \E r \in {rule_heading_order(code)} :
          /\ Append_edits("heading_order", r.raws)
          /\ warnings' = warnings \o r.warnings
    /\ pc' = "rule_no_positive_tabindex"
    /\ UNCHANGED <<code, mode, ml_available, outcomes, call, ret>>

RuleNoPositiveTabindex ==
    /\ pc = "rule_no_positive_tabindex"
    /\ Append_edits("no_positive_tabindex", rule_no_positive_tabindex(code))
    /\ pc' = "rule_html_lang"
    /\ UNCHANGED <<code, mode, ml_available, outcomes, warnings, call, ret>>

\* rule_html_lang, then the placeholder rule_form_control_has_label
RuleHtmlLang ==
    /\ pc = "rule_html_lang"
    /\ Append_edits("html_lang", rule_html_lang(code) \o rule_form_control_has_label(code))
    /\ pc' = "aria_hidden"
    /\ UNCHANGED <<code, mode, ml_available, outcomes, warnings, call, ret>>

AriaHiddenScan ==
    /\ pc = "aria_hidden"
    /\ warnings' = warnings \o aria_hidden_scan(code)
    /\ pc' = "collect"
    /\ UNCHANGED <<code, mode, ml_available, outcomes, edits, emitted, call, ret>>

\* deduplicate, sort and return {"edits": edits, "warnings": warnings}
Collect ==
    /\ pc = "collect"
    /\ edits' = collect(edits)
    /\ pc' = "done"
    /\ UNCHANGED <<code, mode, ml_available, outcomes, warnings, emitted, call, ret>>

Next ==
    \/ Receive
    \/ RuleImageAlt
    \/ RuleInputLabel
    \/ RuleLinkName
    \/ RuleButtonName
    \/ RuleDuplicateId
    \/ RuleHeadingOrder
    \/ RuleNoPositiveTabindex
    \/ RuleHtmlLang
    \/ AriaHiddenScan
    \/ Collect

Spec == Init /\ [][Next]_vars

(***************************************************************************)
(* Direct calls of the utilities and guessers, one call per behaviour:     *)
(* call holds the function and its arguments, ret the values returned.     *)
(* sanitize_text_for_attr is applied a second time to its own result.      *)
(***************************************************************************)
Strs(alphabet, n) == UNION {[1..k -> alphabet] : k \in 0..n}

\* longest string passed to sanitize_text_for_attr
MaxStrLen == 4

\* largest max_len passed to sanitize_text_for_attr
MaxMaxLen == 3

\* longest text passed to offset_to_pos
MaxTextLen == 3

\* longest attribute value, href or src passed to a guesser
MaxValLen == 2

\* the calls made: a function and its arguments
Calls ==
    {[fn |-> "sanitize_text_for_attr", s |-> s, max_len |-> n] : s \in Strs({"a", " ", "\""}, MaxStrLen), n \in 0..MaxMaxLen}
    \cup {c \in {[fn |-> "offset_to_pos", text |-> x, o1 |-> o1, o2 |-> o2] :
                    x \in Strs({"a", "\n"}, MaxTextLen), o1 \in (0 - 2)..(MaxTextLen + 1), o2 \in (0 - 1)..(MaxTextLen + 2)} : c.o1 < c.o2}
    \cup {[fn |-> "guess_alt_from_src", src |-> s] : s \in Strs({"a", "_", ".", "/", "1"}, MaxValLen + 1)}
    \cup {[fn |-> "guess_button_label_from_attrs", attrs |-> <<" ">> \o n \o <<"=", "\"">> \o v \o <<"\"">>, inner_html |-> i] :
             n \in {Lit.class, Lit.id}, v \in Strs({"x", "-", " "}, MaxValLen), i \in Strs({"<", ">", "a", " "}, MaxValLen)}
    \cup {[fn |-> "guess_input_label_from_attrs", tag_name |-> g, attrs |-> <<" ">> \o n \o <<"=", "\"">> \o v \o <<"\"">>] :
             g \in ControlNames, n \in {Lit.type, Lit.name, Lit.id, Lit.class}, v \in Strs({"a", "_", "-", " "}, MaxValLen)}
    \cup {[fn |-> "guess_link_label_from_href", href |-> h, inner_html |-> i] :
             h \in Strs({"a", "-", ".", "/"}, MaxValLen + 1), i \in Strs({"<", ">", " "}, MaxValLen)}

InitUtil ==
    /\ call \in Calls
    /\ ret = <<>>
    /\ pc = "call"
    /\ code = <<>>
    /\ mode = "heuristic"
    /\ ml_available = FALSE
    /\ outcomes = <<>>
    /\ edits = <<>>
    /\ warnings = <<>>
    /\ emitted = <<>>

Returns(values, done) ==
    /\ ret' = ret \o values
    /\ pc' = IF done THEN "returned" ELSE pc
    /\ UNCHANGED <<code, mode, ml_available, outcomes, edits, warnings, emitted, call>>

\* sanitize_text_for_attr(s, max_len), then the same on the value it returned
CallSanitize ==
    /\ pc = "call"
    /\ call.fn = "sanitize_text_for_attr"
    /\ Returns(<<sanitize_text_for_attr(IF ret = <<>> THEN call.s ELSE ret[Len(ret)], call.max_len)>>, Len(ret) = 1)

\* offset_to_pos at two offsets of the same text
CallOffsetToPos ==
    /\ pc = "call"
    /\ call.fn = "offset_to_pos"
    /\ Returns(<<offset_to_pos(call.text, call.o1), offset_to_pos(call.text, call.o2)>>, TRUE)

Returned(label) == [raised |-> FALSE, label |-> label]

CallGuessAlt ==
    /\ pc = "call"
    /\ call.fn = "guess_alt_from_src"
    /\ Returns(<<Returned(guess_alt_from_src(call.src))>>, TRUE)

CallGuessButton ==
    /\ pc = "call"
    /\ call.fn = "guess_button_label_from_attrs"
    /\ Returns(<<Returned(guess_button_label_from_attrs(call.attrs, call.inner_html))>>, TRUE)

CallGuessInput ==
    /\ pc = "call"
    /\ call.fn = "guess_input_label_from_attrs"
    /\ Returns(<<guess_input_label_from_attrs(call.tag_name, call.attrs)>>, TRUE)

CallGuessLink ==
    /\ pc = "call"
    /\ call.fn = "guess_link_label_from_href"
    /\ Returns(<<Returned(guess_link_label_from_href(call.href, call.inner_html))>>, TRUE)

NextUtil ==
    \/ CallSanitize
    \/ CallOffsetToPos
    \/ CallGuessAlt
    \/ CallGuessButton
    \/ CallGuessInput
    \/ CallGuessLink

SpecUtil == InitUtil /\ [][NextUtil]_vars

(***************************************************************************)
(* The collector applied to an arbitrary accumulated list of edits over a  *)
(* three-line text.                                                        *)
(***************************************************************************)
CollectText == <<"a", "b", "\n", "c", "\n", "d">>

\* most edits in an accumulated list
MaxEdits == 4

EmittedPool == {[rule |-> "any", so |-> so, eo |-> so + v[1], newText |-> v[2]] : so \in {0, 1, 3}, v \in {<<0, <<"x">>>>, <<0, <<"y">>>>, <<1, <<"x">>>>}}

\* the edits the rules appended, in the order they appended them
Accumulated == Edits(code, emitted)

InitCollect ==
    /\ code = CollectText
    /\ emitted \in Strs(EmittedPool, MaxEdits)
    /\ edits = Accumulated
    /\ pc = "collect"
    /\ mode = "heuristic"
    /\ ml_available = FALSE
    /\ outcomes = <<>>
    /\ warnings = <<>>
    /\ call = [fn |-> "generate"]
    /\ ret = <<>>

NextCollect == Collect

SpecCollect == InitCollect /\ [][NextCollect]_vars

(***************************************************************************)
(* rule_duplicate_id applied to texts made of elements that carry an id.   *)
(***************************************************************************)
\* the id values written in the texts
IdValues == {<<"x">>, <<"x","-","1">>, <<"x","-","2">>, <<"y">>}

\* most id attributes in one text
MaxIds == 3

IdTexts == {Concat([k \in 1..Len(vs) |-> <<"<","b"," ","i","d","=","\"">> \o vs[k] \o <<"\"",">">>]) : vs \in Strs(IdValues, MaxIds)}

InitDuplicateId ==
    /\ code \in IdTexts
    /\ mode = "heuristic"
    /\ ml_available = FALSE
    /\ outcomes = <<>>
    /\ edits = <<>>
    /\ warnings = <<>>
    /\ emitted = <<>>
    /\ pc = "rule_duplicate_id"
    /\ call = [fn |-> "generate"]
    /\ ret = <<>>

NextDuplicateId == RuleDuplicateId

SpecDuplicateId == InitDuplicateId /\ [][NextDuplicateId]_vars

(***************************************************************************)
(* Properties.                                                             *)
(***************************************************************************)
PosLE(p, q) == p.line < q.line \/ (p.line = q.line /\ p.column <= q.column)

\* the offset a consumer recovers from a position of the text
OffsetOf(text, pos) == CHOOSE o \in 0..Len(text) : offset_to_pos(text, o) = pos

\* one edit applied to the current text at the offsets recorded against the original
ApplyAt(cur, original, e) ==
    Slice(cur, 0, OffsetOf(original, e.start)) \o e.newText \o Slice(cur, OffsetOf(original, e.end), Len(cur))

\* the edits applied one after another in the given order
RECURSIVE ApplySequential(_, _, _)
ApplySequential(cur, original, es) ==
    IF Len(es) = 0 THEN cur ELSE ApplySequential(ApplyAt(cur, original, es[1]), original, Tail(es))

\* every edit applied at its own range of the original: at each offset the new texts
\* of the edits starting there (a later edit of the list in front of an earlier one),
\* then the original character unless some edit's range covers it
ApplyIndependent(original, es) ==
    LET NewAt(p) == Concat([i \in 1..Len(es) |->
                       LET e == es[Len(es) + 1 - i] IN IF OffsetOf(original, e.start) = p THEN e.newText ELSE <<>>])
        KeptAt(p) == IF p < Len(original) /\ \A i \in 1..Len(es) : ~(OffsetOf(original, es[i].start) <= p /\ p < OffsetOf(original, es[i].end))
                     THEN <<original[p + 1]>> ELSE <<>>
    IN Concat([q \in 1..(Len(original) + 1) |-> NewAt(q - 1) \o KeptAt(q - 1)])

\* C1: applying the returned edits one after another in the returned order gives
\* the text obtained by applying each returned edit at its own range of the original.
C1_SequentialEqualsIndependent ==
    pc = "done" => ApplySequential(code, code, edits) = ApplyIndependent(code, edits)

\* index of the first occurrence of e in the list acc
FirstSeen(acc, e) == CHOOSE k \in 1..Len(acc) : acc[k] = e /\ \A j \in 1..(k - 1) : acc[j] # e

\* C2: the returned list holds each distinct accumulated (start, end, newText) exactly
\* once and nothing else, is ordered by non-increasing start, and keeps edits with the
\* same start in the order of their first occurrence.
C2_CollectorContract ==
    pc = "done" =>
        LET acc == Accumulated
        IN /\ \A i \in 1..Len(edits) : \E k \in 1..Len(acc) : acc[k] = edits[i]
           /\ \A k \in 1..Len(acc) : Cardinality({i \in 1..Len(edits) : edits[i] = acc[k]}) = 1
           /\ \A i, j \in 1..Len(edits) : i < j => PosLE(edits[j].start, edits[i].start)
           /\ \A i, j \in 1..Len(edits) : (i < j /\ edits[i].start = edits[j].start) => FirstSeen(acc, edits[i]) < FirstSeen(acc, edits[j])

\* C2 witness: a collected list where a duplicate was dropped, two different edits share
\* a start, and two edits have different starts
C2_Witness ==
    /\ pc = "done"
    /\ Len(edits) < Len(emitted)
    /\ \E i, j \in 1..Len(edits) : i < j /\ edits[i].start = edits[j].start
    /\ \E i, j \in 1..Len(edits) : edits[i].start.line # edits[j].start.line

IsHeadingWarning(w) == w[1] = "Changed heading level"

\* the level a heading has once its correction, if any, is applied
LevelAfter(h) ==
    IF \E k \in 1..Len(warnings) : IsHeadingWarning(warnings[k]) /\ warnings[k][4] = h.start_pos
    THEN (CHOOSE w \in Range(warnings) : IsHeadingWarning(w) /\ w[4] = h.start_pos)[3]
    ELSE h.level

\* C3: after the corrections of HeadingOrder no heading exceeds the level of the
\* heading before it by more than 1.
C3_NoSkippedLevelRemains ==
    pc = "done" =>
        LET hs == find_headings(code)
        IN \A k \in 2..Len(hs) : LevelAfter(hs[k]) <= LevelAfter(hs[k - 1]) + 1

\* C4: sanitize_text_for_attr applied to its own result returns that result.
C4_SanitizeIdempotent ==
    (call.fn = "sanitize_text_for_attr" /\ pc = "returned") => ret[2] = ret[1]

Guessers == {"guess_alt_from_src", "guess_button_label_from_attrs", "guess_input_label_from_attrs", "guess_link_label_from_href"}

\* C5: every guesser returns a non-empty label and none raises.
C5_GuessersReturnLabel ==
    (call.fn \in Guessers /\ pc = "returned") => (~ret[1].raised /\ Len(ret[1].label) > 0)

EmittedBy(rule) == SelectSeq(emitted, LAMBDA r : r.rule = rule)

\* C6: DuplicateId emits, for the j-th occurrence (j > 1) of an id value, one edit
\* over exactly that occurrence's value with newText value-(j-1), and no other edit.
C6_DuplicateIdRewritesValues ==
    pc = "done" =>
        LET ms == FindIter("id", code)
            Value(j) == Slice(code, ms[j].a, ms[j].b)
            Earlier(j) == Cardinality({q \in 1..(j - 1) : Value(q) = Value(j)})
            expected == {[rule |-> "duplicate_id", so |-> ms[j].a, eo |-> ms[j].b, newText |-> Value(j) \o <<"-">> \o Str(Earlier(j))] :
                            j \in {q \in 1..Len(ms) : Earlier(q) > 0}}
        IN /\ Range(EmittedBy("duplicate_id")) = expected
           /\ Len(EmittedBy("duplicate_id")) = Cardinality(expected)

\* C7: for every corrected heading HeadingOrder emits one warning and two edits, one
\* over the tag name of its opening tag and one over the tag name of its closing tag,
\* both with the name of the target level.
C7_HeadingEditsRenameBothTags ==
    pc = "done" =>
        LET ws == SelectSeq(warnings, IsHeadingWarning)
            hes == EmittedBy("heading_order")
            ms == FindIter("heading", code)
            MatchOf(w) == CHOOSE m \in Range(ms) : m.start = w[4]
        IN /\ Len(hes) = 2 * Len(ws)
           /\ \A i, j \in 1..Len(ws) : i # j => ws[i][4] # ws[j][4]
           /\ \A i \in 1..Len(ws) :
                 /\ hes[2 * i - 1] = [rule |-> "heading_order", so |-> MatchOf(ws[i]).start + 1, eo |-> MatchOf(ws[i]).start + 3, newText |-> HName(ws[i][3])]
                 /\ hes[2 * i] = [rule |-> "heading_order", so |-> MatchOf(ws[i]).d + 2, eo |-> MatchOf(ws[i]).d + 4, newText |-> HName(ws[i][3])]

\* an insertion of alt text before the '>' of an image whose src is inline data
IsInlineImageAlt(text, e) ==
    /\ e.start = e.end
    /\ \E m \in Range(FindIter("img", text)) :
          /\ offset_to_pos(text, InsertBeforeLastGt(text, m)) = e.start
          /\ StartsAt(<<"d","a","t","a",":">>, AttrValue(Lit.src, Slice(text, m.a, m.b)), 0)
    /\ SubSeq(e.newText, 1, 6) = <<" ","a","l","t","=","\"">>

PositionOf(text, offset) ==
    LET c == Min(Max(offset, 0), Len(text))
        newlines == {k \in 1..c : text[k] = "\n"}
    IN [line |-> Cardinality(newlines), column |-> c - (IF newlines = {} THEN 0 ELSE CHOOSE k \in newlines : \A q \in newlines : q <= k)]

\* C9: offset_to_pos returns, for every text and integer offset, the position of the
\* clamped offset, and for o1 < o2 the position of o1 is not after the position of o2.
C9_OffsetToPosTotalMonotonic ==
    (call.fn = "offset_to_pos" /\ pc = "returned") =>
        /\ ret[1] = PositionOf(call.text, call.o1)
        /\ ret[2] = PositionOf(call.text, call.o2)
        /\ PosLE(ret[1], ret[2])

\* C9 witness: a negative offset and an offset beyond the end of a text with a newline
C9_Witness ==
    /\ call.fn = "offset_to_pos" /\ pc = "returned"
    /\ call.o1 < 0 /\ call.o2 > Len(call.text)
    /\ ret[2].line > 0 /\ ret[2].column > 0

InsertionRules == {"image_alt", "input_label", "link_name", "button_name", "html_lang"}

\* C10: every edit a rule appends is computed from offsets with 0 <= start <= end <=
\* len(text), insertions with start = end, and the edits hold the positions of these offsets.
C10_EditOffsetsInRange ==
    /\ \A k \in 1..Len(emitted) :
          /\ 0 <= emitted[k].so /\ emitted[k].so <= emitted[k].eo /\ emitted[k].eo <= Len(code)
          /\ emitted[k].rule \in InsertionRules => emitted[k].so = emitted[k].eo
    /\ pc # "done" => edits = Accumulated
    /\ pc = "done" => LET acc == Accumulated IN \A i \in 1..Len(edits) : \E k \in 1..Len(acc) : acc[k] = edits[i]

\* C10 witness: a returned result with an edit of HeadingOrder whose find() missed the
\* tag name (the offset it computed does not point at an 'h')
C10_WitnessHeading ==
    /\ pc = "done"
    /\ \E k \in 1..Len(emitted) : emitted[k].rule = "heading_order" /\ code[emitted[k].so + 1] \notin {"h", "H"}

\* the id values of a text, in document order
IdValuesOf(text) == [k \in 1..Len(FindIter("id", text)) |-> Group1(text, FindIter("id", text)[k])]

\* C11: once rule_duplicate_id has run, the text obtained by applying its edits to the
\* input has no two id attribute occurrences with the same value.
C11_NoTwoIdsEqualAfterEdits ==
    pc = "rule_heading_order" =>
        LET ids == IdValuesOf(ApplyIndependent(code, Edits(code, EmittedBy("duplicate_id"))))
        IN \A j, k \in 1..Len(ids) : j # k => ids[j] # ids[k]

====
